---------------------------- MODULE Spec2Model ----------------------------
(***************************************************************************)
(* A model of gcsa_locate: the seeding helpers of seed.h, the Timer        *)
(* registry of timer.h and the locate_seeds pipeline of main.cc with its   *)
(* SIGUSR1 progress report.                                                *)
(*                                                                         *)
(* Strings are sequences of characters 1..AlphabetSize.  Two               *)
(* specifications share the variables:                                     *)
(*   SeedSpec  one call of a seeding overload on a bounded string set;     *)
(*   Spec      one run of main(), with the signal handler firing between   *)
(*             any two steps of the main computation.                      *)
(***************************************************************************)
EXTENDS Integers, Sequences, FiniteSets, TLC

(***************************************************************************)
(* Bounds of the model.                                                    *)
(***************************************************************************)
MaxLen == 10
MaxSeqs == 2
MaxK == 4
MaxStep == 4
AlphabetSize == 4
\* main(): lines of the sequence file, characters of a line, option values.
\* A line of 3 characters gives, for seeds of length 2, different seeds with
\* step 1 and step 2.
MaxLines == 1
MaxLineLen == 3
MaxSeedLen == 2
MaxDistance == 1
\* The last instant of the steady clock.
MaxClock == 2
\* The last instant of the clock, and the most Timer objects alive at a
\* time, when the Timer class is exercised on its own.
MaxTimerClock == 3
MaxAlive == 2

(***************************************************************************)
(* Integer widths.  std::string::length() is a size_t and k, step, i and   *)
(* last are unsigned int; the code runs with 2^64 and 2^32.  TLC's         *)
(* integers are 32 bits wide, so both moduli are scaled down, keeping      *)
(* UIntMod < SizeMod and both far above every length the bounds allow.     *)
(***************************************************************************)
SizeMod == 2^16
UIntMod == 2^8

(***************************************************************************)
(* seed.h                                                                  *)
(***************************************************************************)

\* std::string::substr( pos, len ), called with pos <= Len(s): the characters
\* [pos, min(pos + len, size)).  (pos > size throws; see substr_throws.)
substr(s, pos, len) ==
  LET last == IF pos + len < Len(s) THEN pos + len ELSE Len(s)
  IN  SubSeq(s, pos + 1, last)

\* std::string::substr throws std::out_of_range iff pos > size().
substr_throws(s, pos) == pos > Len(s)

\* Mutant: the bound without its + 1.
StepBound_noplus1(n, k) == (n - k) % SizeMod

\* seed.h:58, the loop bound `string_set[idx].length() - k + 1` in size_t.
StepBound(n, k) == (n - k + 1) % SizeMod

\* seed.h:129, `string_set[idx].length() - k`: the loop bound in size_t.
GreedyBound(n, k) == (n - k) % SizeMod

\* Mutant: the last seed at the last multiple of k, not re-aligned to the end.
GreedyLast_aligned(n, k) == (((n - k) % SizeMod) \div k) * k

\* seed.h:132, `unsigned int last = string_set[idx].length() - k`.
GreedyLast(n, k) == ((n - k) % SizeMod) % UIntMod

\* `i += step` on an unsigned int.
Advance(i, step) == (i + step) % UIntMod

\* The inner for loop of both overloads (seed.h:58-60, seed.h:129-131) on one
\* string: from i, while i < bound, push substr( i, k ) and advance.  The
\* result is the seed vector and how the loop ended: "ok", "out_of_range"
\* (substr threw; the seeds pushed so far stay in the vector) or "no_return"
\* (i came back to a value it had: the loop never ends).
RECURSIVE InnerLoop(_, _, _, _, _, _, _)
InnerLoop(seeds, s, k, step, bound, i, visited) ==
  IF ~(i < bound) THEN [seeds |-> seeds, outcome |-> "ok"]
  ELSE IF substr_throws(s, i) THEN [seeds |-> seeds, outcome |-> "out_of_range"]
  ELSE IF i \in visited THEN [seeds |-> seeds, outcome |-> "no_return"]
  ELSE InnerLoop(Append(seeds, substr(s, i, k)), s, k, step, bound,
                 Advance(i, step), visited \cup {i})

\* seed.h:57-61: the outer loop of seeding( seeds, string_set, k, step ),
\* from string idx on.
RECURSIVE StepLoop(_, _, _, _, _)
StepLoop(seeds, string_set, k, step, idx) ==
  IF idx > Len(string_set) THEN [seeds |-> seeds, outcome |-> "ok"]
  ELSE LET s == string_set[idx]
           r == InnerLoop(seeds, s, k, step, StepBound(Len(s), k), 0, {})
       IN  IF r.outcome # "ok" THEN r
           ELSE StepLoop(r.seeds, string_set, k, step, idx + 1)

\* seed.h:50-62: seeding( seeds, string_set, k, step ).  It appends to seeds.
seeding(seeds, string_set, k, step) == StepLoop(seeds, string_set, k, step, 1)

\* Mutant: without seeds.clear().
seeding_GreedyOverlapping_noclear(seeds, string_set, k) ==
  seeding(seeds, string_set, k, 1)

\* seed.h:74-83: seeding( seeds, string_set, k, GreedyOverlapping ).
seeding_GreedyOverlapping(seeds, string_set, k) ==
  seeding(<<>>, string_set, k, 1)

\* seed.h:95-104: seeding( seeds, string_set, k, NonOverlapping ).
seeding_NonOverlapping(seeds, string_set, k) ==
  seeding(<<>>, string_set, k, k)

\* seed.h:128-134: the outer loop of the GreedyNonOverlapping overload.
RECURSIVE GreedyLoop(_, _, _, _)
GreedyLoop(seeds, string_set, k, idx) ==
  IF idx > Len(string_set) THEN [seeds |-> seeds, outcome |-> "ok"]
  ELSE LET s == string_set[idx]
           r == InnerLoop(seeds, s, k, k, GreedyBound(Len(s), k), 0, {})
           last == GreedyLast(Len(s), k)
       IN  IF r.outcome # "ok" THEN r
           ELSE IF substr_throws(s, last)
                THEN [seeds |-> r.seeds, outcome |-> "out_of_range"]
           ELSE GreedyLoop(Append(r.seeds, substr(s, last, k)),
                           string_set, k, idx + 1)

\* seed.h:119-135: seeding( seeds, string_set, k, GreedyNonOverlapping ).
seeding_GreedyNonOverlapping(seeds, string_set, k) ==
  GreedyLoop(<<>>, string_set, k, 1)

(***************************************************************************)
(* Inputs.                                                                 *)
(***************************************************************************)

\* The string of length n whose i-th character is ((i-1) mod AlphabetSize)+1:
\* "", "A", "AC", "ACG", "ACGT", "ACGTA", ...
Ruler(n) == [i \in 1..n |-> ((i - 1) % AlphabetSize) + 1]

Strings == {Ruler(n) : n \in 0..MaxLen}

\* String sets (ordered) of at most MaxSeqs strings.
StringSets == UNION {[1..m -> Strings] : m \in 0..MaxSeqs}

\* A seed left in the vector by an earlier use of it.
StaleSeed == <<AlphabetSize, AlphabetSize>>

(***************************************************************************)
(* timer.h.  The registry is a function from the names used so far to      *)
(* TimePeriod records; instants are integers, the clock's epoch is 0.      *)
(***************************************************************************)

\* A value-initialised TimePeriod: both time points at the epoch.
TimePeriod == [start |-> 0, end |-> 0]

\* get_timers()[ name ]: std::unordered_map::operator[] inserts a
\* value-initialised entry for a name that has none.
Subscript(timers, name) ==
  IF name \in DOMAIN timers THEN timers ELSE timers @@ (name :> TimePeriod)

\* Timer::Timer writing a fresh TimePeriod for the name.
Timer_ctor_resets(timers, name, t) ==
  [n \in DOMAIN timers \cup {name} |->
     IF n = name THEN [start |-> t, end |-> 0] ELSE timers[n]]

\* timer.h:49-53, Timer::Timer: the registry after the constructor ran at t.
Timer_ctor(timers, name, t) ==
  [Subscript(timers, name) EXCEPT ![name].start = t]

\* timer.h:60-63, Timer::~Timer: the registry after the destructor ran at t.
Timer_dtor(timers, name, t) ==
  [Subscript(timers, name) EXCEPT ![name].end = t]

\* timer.h:82-87, Timer::get_duration: end - start of the entry.
get_duration(timers, name) ==
  Subscript(timers, name)[name].end - Subscript(timers, name)[name].start

\* Timer::get_lap taking a timer stopped at the instant it started for a
\* finished one.
get_lap_ge(timers, name, t) ==
  IF Subscript(timers, name)[name].end >= Subscript(timers, name)[name].start
  THEN get_duration(timers, name)
  ELSE t - Subscript(timers, name)[name].start

\* timer.h:101-109, Timer::get_lap at instant t.
get_lap(timers, name, t) ==
  IF Subscript(timers, name)[name].end > Subscript(timers, name)[name].start
  THEN get_duration(timers, name)
  ELSE t - Subscript(timers, name)[name].start

(***************************************************************************)
(* The GCSA index, an external collaborator.  An index is modelled by the  *)
(* text of the graph it was built from (one path; node i carries character *)
(* i); a range is the opaque handle find gives back, here the set of the   *)
(* nodes where the pattern starts.                                         *)
(***************************************************************************)
EmptyRange == {}

\* gcsa::GCSA::find( pattern ).
find(index, p) ==
  {i \in 1..Len(index) :
     /\ i + Len(p) - 1 <= Len(index)
     /\ SubSeq(index, i, i + Len(p) - 1) = p}

\* gcsa::Range::empty( range ).
Range_empty(range) == range = EmptyRange

\* gcsa::GCSA::count( range ).
count(index, range) == Cardinality(range)

\* gcsa::GCSA::locate( range, results ): results is overwritten with the
\* occurrences (node, offset) of the range, in increasing order.
RECURSIVE SortedNodes(_)
SortedNodes(S) ==
  IF S = {} THEN <<>>
  ELSE LET m == CHOOSE x \in S : \A y \in S : x <= y
       IN  <<[node |-> m, offset |-> 0]>> \o SortedNodes(S \ {m})

locate(index, range) == SortedNodes(range)

\* The index files of the model: nothing indexed, "AA", "AAC".
IndexFiles == {<<>>, <<1, 1>>, <<1, 1, 2>>}

\* The sequence files of the model: at most MaxLines lines.
Lines == {Ruler(n) : n \in 0..MaxLineLen}
SeqFiles == UNION {[1..m -> Lines] : m \in 0..MaxLines}

-----------------------------------------------------------------------------
VARIABLES
  pc,          \* where the main computation (or the API caller) stands
  seed_len,    \* k: options.seed_len
  distance,    \* options.distance
  distance_opt,\* the value parsed for -d; 0 when the option is not given
  seq_file,    \* the lines of the opened sequence file
  index,       \* the loaded index
  sequences,   \* the string set
  patterns,    \* the seed vector
  outcome,     \* how the last seeding call ended
  call,        \* SeedSpec: the overload called, its step, the vector before
  ranges,      \* locate_seeds: the retained ranges
  total,       \* locate_seeds: the local match-path total
  results,     \* locate_seeds: the vector locate fills
  it,          \* the position of the running range-for loop
  done_idx,    \* ::done_idx
  total_no,    \* ::total_no
  total_occs,  \* ::total_occs
  timers,      \* Timer::get_timers()
  now,         \* the steady clock
  handler,     \* whether signal_handler is installed for SIGUSR1
  report,      \* the last line signal_handler printed
  alive,       \* TimerSpec: the names of the Timer objects alive
  output       \* the records written to the output file

vars == <<pc, seed_len, distance, distance_opt, seq_file, index, sequences,
          patterns, outcome, call, ranges, total, results, it, done_idx,
          total_no, total_occs, timers, now, handler, report, alive, output>>

counters == <<done_idx, total_no, total_occs>>
locals == <<sequences, patterns, outcome, ranges, total, results, it>>
options == <<seed_len, distance, distance_opt>>
files == <<seq_file, index>>

NoCall == [tag |-> "none", step |-> 0, before |-> <<>>]

(***************************************************************************)
(* SeedSpec: one call of one seeding overload.                             *)
(***************************************************************************)
SeedInit ==
  /\ pc = "api"
  /\ seed_len \in 1..MaxK
  /\ sequences \in StringSets
  /\ patterns \in {<<>>, <<StaleSeed>>}
  /\ outcome = "none"
  /\ call = NoCall
  /\ distance = 0
  /\ distance_opt = 0
  /\ seq_file = <<>>
  /\ index = <<>>
  /\ ranges = <<>>
  /\ total = 0
  /\ results = <<>>
  /\ it = 0
  /\ done_idx = 0
  /\ total_no = 0
  /\ total_occs = 0
  /\ timers = <<>>
  /\ now = 1
  /\ handler = FALSE
  /\ report = <<>>
  /\ alive = <<>>
  /\ output = <<>>

Returned(r, tag, step) ==
  /\ patterns' = r.seeds
  /\ outcome' = r.outcome
  /\ pc' = IF r.outcome = "ok" THEN "returned" ELSE r.outcome
  /\ call' = [tag |-> tag, step |-> step, before |-> patterns]
  /\ UNCHANGED <<seed_len, sequences, distance, distance_opt, files, ranges,
                 total, results, it, counters, timers, now, handler, report,
                 alive, output>>

CallStep ==
  /\ pc = "api"
  /\ \E step \in 1..MaxStep :
       Returned(seeding(patterns, sequences, seed_len, step), "step", step)

CallGreedyOverlapping ==
  /\ pc = "api"
  /\ Returned(seeding_GreedyOverlapping(patterns, sequences, seed_len),
              "overlapping", 1)

CallNonOverlapping ==
  /\ pc = "api"
  /\ Returned(seeding_NonOverlapping(patterns, sequences, seed_len),
              "nonoverlapping", seed_len)

CallGreedyNonOverlapping ==
  /\ pc = "api"
  /\ Returned(seeding_GreedyNonOverlapping(patterns, sequences, seed_len),
              "greedy", seed_len)

SeedNext ==
  \/ CallStep
  \/ CallGreedyOverlapping
  \/ CallNonOverlapping
  \/ CallGreedyNonOverlapping

SeedSpec == SeedInit /\ [][SeedNext]_vars

(***************************************************************************)
(* Spec: one run of main().                                                *)
(***************************************************************************)

\* clock_type::now(): the steady clock never goes back; two reads may give
\* the same instant.
Instants == now..(IF now < MaxClock THEN now + 1 ELSE now)

ClockRead(t) == now' = t

\* get_option_values without the replacement of a distance of 0.
EffectiveDistance_keeps_zero(d, k) == d

\* get_option_values with a distance of 0 standing for overlapping seeds.
EffectiveDistance_default_one(d, k) == IF d = 0 THEN 1 ELSE d

\* main.cc:221, get_option_values: a distance of 0 stands for the seed length.
EffectiveDistance(d, k) == IF d = 0 THEN k ELSE d

Init ==
  /\ pc = "main"
  /\ seed_len = 0
  /\ distance = 0
  /\ distance_opt = 0
  /\ seq_file = <<>>
  /\ index = <<>>
  /\ sequences = <<>>
  /\ patterns = <<>>
  /\ outcome = "none"
  /\ call = NoCall
  /\ ranges = <<>>
  /\ total = 0
  /\ results = <<>>
  /\ it = 0
  /\ done_idx = 0
  /\ total_no = 0
  /\ total_occs = 0
  /\ timers = <<>>
  /\ now = 1
  /\ handler = FALSE
  /\ report = <<>>
  /\ alive = <<>>
  /\ output = <<>>

\* main.cc:61-65 and 155-176, 213-222: parse_args.  Either the command line
\* is rejected (or asks for help) and main returns, or the options are set.
ParseArgs ==
  /\ pc = "main"
  /\ \/ /\ pc' = "exit_parse"
        /\ UNCHANGED options
     \/ \E k \in 1..MaxSeedLen, d \in 0..MaxDistance :
          /\ seed_len' = k
          /\ distance_opt' = d
          /\ distance' = EffectiveDistance(d, k)
          /\ pc' = "install"
  /\ UNCHANGED <<files, locals, call, counters, timers, now, handler, report,
                 alive, output>>

\* main.cc:68: std::signal( SIGUSR1, signal_handler ).
InstallHandler ==
  /\ pc = "install"
  /\ handler' = TRUE
  /\ pc' = "open_seq"
  /\ UNCHANGED <<options, files, locals, call, counters, timers, now, report,
                 alive, output>>

\* main.cc:92-95: open the sequence file, or throw.
OpenSeqFile ==
  /\ pc = "open_seq"
  /\ \/ /\ pc' = "failed"
        /\ UNCHANGED seq_file
     \/ \E f \in SeqFiles :
          /\ seq_file' = f
          /\ pc' = "open_gcsa"
  /\ UNCHANGED <<options, index, locals, call, counters, timers, now, handler,
                 report, alive, output>>

\* OpenGcsaFile with the check of the stream made after index.load.
OpenGcsaFile_after_load ==
  /\ pc = "open_gcsa"
  /\ \/ /\ \E g \in IndexFiles : index' = g
        /\ pc' = "failed"
     \/ /\ pc' = "load_index"
        /\ UNCHANGED index
  /\ UNCHANGED <<options, seq_file, locals, call, counters, timers, now,
                 handler, report, alive, output>>

\* main.cc:96-99: open the index file, or throw.
OpenGcsaFile ==
  /\ pc = "open_gcsa"
  /\ \/ pc' = "failed"
     \/ pc' = "load_index"
  /\ UNCHANGED <<options, files, locals, call, counters, timers, now, handler,
                 report, alive, output>>

\* main.cc:100-106: index.load( gcsa_file ).
LoadIndex ==
  /\ pc = "load_index"
  /\ \E g \in IndexFiles : index' = g
  /\ pc' = "load_seqs"
  /\ UNCHANGED <<options, seq_file, locals, call, counters, timers, now,
                 handler, report, alive, output>>

\* main.cc:109: Timer( "sequences" ).
BeginSequences ==
  /\ pc = "load_seqs"
  /\ \E t \in Instants : ClockRead(t) /\ timers' = Timer_ctor(timers, "sequences", t)
  /\ pc' = "reading"
  /\ UNCHANGED <<options, files, locals, call, counters, handler, report, alive,
                 output>>

\* main.cc:110-114: the getline loop and the end of the timer's scope.
EndSequences ==
  /\ pc = "reading"
  /\ sequences' = seq_file
  /\ \E t \in Instants : ClockRead(t) /\ timers' = Timer_dtor(timers, "sequences", t)
  /\ pc' = "gen_patterns"
  /\ UNCHANGED <<options, files, patterns, outcome, ranges, total, results, it,
                 call, counters, handler, report, alive, output>>

\* main.cc:119: Timer( "patterns" ).
BeginPatterns ==
  /\ pc = "gen_patterns"
  /\ \E t \in Instants : ClockRead(t) /\ timers' = Timer_ctor(timers, "patterns", t)
  /\ pc' = "seeding"
  /\ UNCHANGED <<options, files, locals, call, counters, handler, report, alive,
                 output>>

\* main.cc:120-121: seeding( patterns, sequences, seed_len, distance ) and
\* the end of the timer's scope.  std::out_of_range leaves main uncaught:
\* std::terminate is called, and whether the stack is unwound first (the
\* Timer destroyed) is implementation-defined.
EndPatterns ==
  /\ pc = "seeding"
  /\ LET r == seeding(patterns, sequences, seed_len, distance)
     IN  /\ patterns' = r.seeds
         /\ outcome' = r.outcome
         /\ \/ /\ r.outcome = "ok"
               /\ \E t \in Instants :
                    ClockRead(t) /\ timers' = Timer_dtor(timers, "patterns", t)
               /\ pc' = "set_total"
            \/ /\ r.outcome = "out_of_range"
               /\ \/ \E t \in Instants :
                       ClockRead(t) /\ timers' = Timer_dtor(timers, "patterns", t)
                  \/ UNCHANGED <<timers, now>>
               /\ pc' = "failed"
            \/ /\ r.outcome = "no_return"
               /\ UNCHANGED <<timers, now>>
               /\ pc' = "hung"
  /\ UNCHANGED <<options, files, sequences, ranges, total, results, it, call,
                 counters, handler, report, alive, output>>

\* Mutant: total_no counts the sequences, not the patterns.
SetTotal_counts_sequences ==
  /\ pc = "set_total"
  /\ total_no' = Len(sequences)
  /\ pc' = "find_begin"
  /\ UNCHANGED <<options, files, locals, call, done_idx, total_occs, timers,
                 now, handler, report, alive, output>>

\* main.cc:122: ::total_no = patterns.size().
SetTotal ==
  /\ pc = "set_total"
  /\ total_no' = Len(patterns)
  /\ pc' = "find_begin"
  /\ UNCHANGED <<options, files, locals, call, done_idx, total_occs, timers,
                 now, handler, report, alive, output>>

\* BeginFind zeroing the global total_no where it zeroes the local total.
BeginFind_zeroes_total_no ==
  /\ pc = "find_begin"
  /\ ranges' = <<>>
  /\ total_no' = 0
  /\ \E t \in Instants : ClockRead(t) /\ timers' = Timer_ctor(timers, "find", t)
  /\ it' = 1
  /\ pc' = "find"
  /\ UNCHANGED <<options, files, sequences, patterns, outcome, total, results,
                 call, done_idx, total_occs, handler, report, alive, output>>

\* main.cc:126-130: ranges, total, Timer( "find" ) and the loop's begin.
BeginFind ==
  /\ pc = "find_begin"
  /\ ranges' = <<>>
  /\ total' = 0
  /\ \E t \in Instants : ClockRead(t) /\ timers' = Timer_ctor(timers, "find", t)
  /\ it' = 1
  /\ pc' = "find"
  /\ UNCHANGED <<options, files, sequences, patterns, outcome, results, call,
                 counters, handler, report, alive, output>>

\* Mutant: without the test of gcsa::Range::empty.
FindBody_keeps_empty(rs, tot, idx, p) ==
  [ranges |-> Append(rs, find(idx, p)),
   total |-> tot + count(idx, find(idx, p))]

\* main.cc:131-135: the body of the find loop for one pattern: what it makes
\* of ranges and total.
FindBody(rs, tot, idx, p) ==
  LET range == find(idx, p)
  IN  IF ~Range_empty(range)
      THEN [ranges |-> Append(rs, range), total |-> tot + count(idx, range)]
      ELSE [ranges |-> rs, total |-> tot]

\* The find loop left at the first seed that matches nothing.
FindStep_stops_at_empty ==
  /\ pc = "find"
  /\ it <= Len(patterns)
  /\ LET b == FindBody(ranges, total, index, patterns[it])
     IN  /\ ranges' = b.ranges
         /\ total' = b.total
  /\ it' = IF Range_empty(find(index, patterns[it]))
           THEN Len(patterns) + 1
           ELSE it + 1
  /\ UNCHANGED <<pc, options, files, sequences, patterns, outcome, results,
                 call, counters, timers, now, handler, report, alive, output>>

\* main.cc:130-136: one iteration of the find loop.
FindStep ==
  /\ pc = "find"
  /\ it <= Len(patterns)
  /\ LET b == FindBody(ranges, total, index, patterns[it])
     IN  /\ ranges' = b.ranges
         /\ total' = b.total
  /\ it' = it + 1
  /\ UNCHANGED <<pc, options, files, sequences, patterns, outcome, results,
                 call, counters, timers, now, handler, report, alive, output>>

\* EndFind with the Timer of the find loop living on past the loop.
EndFind_keeps_timer ==
  /\ pc = "find"
  /\ it > Len(patterns)
  /\ total' = 0
  /\ pc' = "locate_begin"
  /\ UNCHANGED <<options, files, sequences, patterns, outcome, ranges, results,
                 it, call, counters, timers, now, handler, report, alive,
                 output>>

\* main.cc:136-140: the end of the find loop and of its timer; total = 0.
EndFind ==
  /\ pc = "find"
  /\ it > Len(patterns)
  /\ \E t \in Instants : ClockRead(t) /\ timers' = Timer_dtor(timers, "find", t)
  /\ total' = 0
  /\ pc' = "locate_begin"
  /\ UNCHANGED <<options, files, sequences, patterns, outcome, ranges, results,
                 it, call, counters, handler, report, alive, output>>

\* main.cc:142-143: Timer( "locate" ) and the loop's begin.
BeginLocate ==
  /\ pc = "locate_begin"
  /\ \E t \in Instants : ClockRead(t) /\ timers' = Timer_ctor(timers, "locate", t)
  /\ it' = 1
  /\ pc' = "locate"
  /\ UNCHANGED <<options, files, sequences, patterns, outcome, ranges, total,
                 results, call, counters, handler, report, alive, output>>

\* LocateCall with locate appending to results.
LocateCall_appends ==
  /\ pc = "locate"
  /\ it <= Len(ranges)
  /\ results' = results \o locate(index, ranges[it])
  /\ pc' = "add_occs"
  /\ UNCHANGED <<options, files, sequences, patterns, outcome, ranges, total,
                 it, call, counters, timers, now, handler, report, alive, output>>

\* main.cc:144: index.locate( range, results ).
LocateCall ==
  /\ pc = "locate"
  /\ it <= Len(ranges)
  /\ results' = locate(index, ranges[it])
  /\ pc' = "add_occs"
  /\ UNCHANGED <<options, files, sequences, patterns, outcome, ranges, total,
                 it, call, counters, timers, now, handler, report, alive, output>>

\* main.cc:146: ::total_occs += results.size().
AddOccs ==
  /\ pc = "add_occs"
  /\ total_occs' = total_occs + Len(results)
  /\ pc' = "inc_done"
  /\ UNCHANGED <<options, files, locals, call, done_idx, total_no, timers, now,
                 handler, report, alive, output>>

\* main.cc:147: ::done_idx++, and the loop's next range.
IncDone ==
  /\ pc = "inc_done"
  /\ done_idx' = done_idx + 1
  /\ it' = it + 1
  /\ pc' = "locate"
  /\ UNCHANGED <<options, files, sequences, patterns, outcome, ranges, total,
                 results, call, total_no, total_occs, timers, now, handler,
                 report, alive, output>>

\* main.cc:148-152: the end of the locate loop and of its timer, the last
\* line printed, and the return to main.  No output file is opened
\* (main.cc:91) and nothing is written from results.
EndLocate ==
  /\ pc = "locate"
  /\ it > Len(ranges)
  /\ \E t \in Instants : ClockRead(t) /\ timers' = Timer_dtor(timers, "locate", t)
  /\ pc' = "done"
  /\ UNCHANGED <<options, files, locals, call, counters, handler, report, alive,
                 output>>

\* The main computation has ended: it returned, threw or never returns.
Ended == pc \in {"exit_parse", "failed", "done", "sigfpe", "hung"}

\* main.cc:77-84, signal_handler, run when SIGUSR1 arrives.  It reads the
\* three counters and the lap of "locate" (inserting the entry when there is
\* none) and divides by total_no.  With total_no = 0 the division is
\* undefined: the process is killed by SIGFPE, or goes on with some value.
\* (main.cc calls Timer<>::get_lap_str, which timer.h does not hold; it is
\* taken to print Timer::get_lap.)
Percent(done, tot) == (done * 100) \div tot

\* The line printed; percent is <<>> when the division was undefined.
ReportLine(lap) ==
  [completed |-> done_idx, total |-> total_no, occurrences |-> total_occs,
   lap |-> lap,
   percent |-> IF total_no = 0 THEN <<>>
               ELSE <<Percent(done_idx, total_no)>>]

signal_handler ==
  /\ handler
  /\ ~Ended
  /\ timers' = Subscript(timers, "locate")
  /\ \E t \in Instants :
       /\ IF timers'["locate"].end > timers'["locate"].start
          THEN t = now /\ UNCHANGED now
          ELSE ClockRead(t)
       /\ report' = <<ReportLine(get_lap(timers, "locate", t))>>
  /\ IF total_no = 0
     THEN pc' \in {"sigfpe", pc}
     ELSE pc' = pc
  /\ UNCHANGED <<options, files, locals, call, counters, handler, alive, output>>

Next ==
  \/ ParseArgs
  \/ InstallHandler
  \/ OpenSeqFile
  \/ OpenGcsaFile
  \/ LoadIndex
  \/ BeginSequences
  \/ EndSequences
  \/ BeginPatterns
  \/ EndPatterns
  \/ SetTotal
  \/ BeginFind
  \/ FindStep
  \/ EndFind
  \/ BeginLocate
  \/ LocateCall
  \/ AddOccs
  \/ IncDone
  \/ EndLocate
  \/ signal_handler

Spec == Init /\ [][Next]_vars

\* The steps of main and locate_seeds.  The program has one thread and
\* signal_handler returns to it, so a run that has not ended does not stay
\* for ever at a step of main that can be taken.
MainNext ==
  \/ ParseArgs \/ InstallHandler \/ OpenSeqFile \/ OpenGcsaFile \/ LoadIndex
  \/ BeginSequences \/ EndSequences \/ BeginPatterns \/ EndPatterns
  \/ SetTotal \/ BeginFind \/ FindStep \/ EndFind \/ BeginLocate
  \/ LocateCall \/ AddOccs \/ IncDone \/ EndLocate

FairSpec == Spec /\ WF_vars(MainNext)

-----------------------------------------------------------------------------
(***************************************************************************)
(* The Timer class on its own: Timer objects of two names are constructed  *)
(* and destroyed in any order and the registry is queried in between.      *)
(***************************************************************************)
TimerNames == {"find", "locate"}

\* What the steady clock may return to a client of the class.
TimerInstants == now..(IF now < MaxTimerClock THEN now + 1 ELSE now)

\* No query made yet.  A query is recorded in `call`: the method, the name
\* asked for, the value returned, the clock at the return, whether the
\* registry had the name before, and the entry read.
NoQuery == [tag |-> "none", name |-> "", value |-> 0, at |-> 0,
            had |-> FALSE, entry |-> TimePeriod]

TimerInit ==
  /\ pc = "timers"
  /\ seed_len = 0
  /\ distance = 0
  /\ distance_opt = 0
  /\ seq_file = <<>>
  /\ index = <<>>
  /\ sequences = <<>>
  /\ patterns = <<>>
  /\ outcome = "none"
  /\ call = NoQuery
  /\ ranges = <<>>
  /\ total = 0
  /\ results = <<>>
  /\ it = 0
  /\ done_idx = 0
  /\ total_no = 0
  /\ total_occs = 0
  /\ timers = <<>>
  /\ now = 1
  /\ handler = FALSE
  /\ report = <<>>
  /\ alive = <<>>
  /\ output = <<>>

\* What no method of Timer touches.
untimed == <<pc, options, files, locals, counters, handler, report, output>>

\* timer.h:49-53: Timer timer( name ).
Start(name) ==
  /\ pc = "timers"
  /\ Len(alive) < MaxAlive
  /\ \E t \in TimerInstants :
       ClockRead(t) /\ timers' = Timer_ctor(timers, name, t)
  /\ alive' = Append(alive, name)
  /\ UNCHANGED <<untimed, call>>

\* timer.h:60-63: the i-th Timer object alive is destroyed.
Stop(i) ==
  /\ pc = "timers"
  /\ i \in 1..Len(alive)
  /\ \E t \in TimerInstants :
       ClockRead(t) /\ timers' = Timer_dtor(timers, alive[i], t)
  /\ alive' = SubSeq(alive, 1, i - 1) \o SubSeq(alive, i + 1, Len(alive))
  /\ UNCHANGED <<untimed, call>>

\* timer.h:82-87: Timer::get_duration( name ).
QueryDuration(name) ==
  /\ pc = "timers"
  /\ timers' = Subscript(timers, name)
  /\ call' = [tag |-> "get_duration", name |-> name,
              value |-> get_duration(timers, name), at |-> now,
              had |-> name \in DOMAIN timers, entry |-> timers'[name]]
  /\ UNCHANGED <<untimed, now, alive>>

\* timer.h:101-109: Timer::get_lap( name ); the clock is read only when
\* the entry does not read as finished.
QueryLap(name) ==
  /\ pc = "timers"
  /\ timers' = Subscript(timers, name)
  /\ \E t \in TimerInstants :
       /\ IF timers'[name].end > timers'[name].start
          THEN t = now /\ UNCHANGED now
          ELSE ClockRead(t)
       /\ call' = [tag |-> "get_lap", name |-> name,
                   value |-> get_lap(timers, name, t), at |-> t,
                   had |-> name \in DOMAIN timers, entry |-> timers'[name]]
  /\ UNCHANGED <<untimed, alive>>

TimerStart == \E name \in TimerNames : Start(name)
TimerStop == \E i \in 1..MaxAlive : Stop(i)
TimerDuration == \E name \in TimerNames : QueryDuration(name)
TimerLap == \E name \in TimerNames : QueryLap(name)

TimerNext ==
  \/ TimerStart
  \/ TimerStop
  \/ TimerDuration
  \/ TimerLap

TimerSpec == TimerInit /\ [][TimerNext]_vars

-----------------------------------------------------------------------------
(***************************************************************************)
(* What the specification of the seeding strategies says, in closed form.  *)
(***************************************************************************)

\* The substring of s of length k at (0-based) offset off.
KmerAt(s, off, k) == SubSeq(s, off + 1, off + k)

\* The k-mers of s at offsets 0, step, 2*step, ... <= Len(s) - k; none when
\* s is shorter than k.
KmersOf(s, k, step) ==
  LET n == Len(s)
      cnt == IF n < k THEN 0 ELSE ((n - k) \div step) + 1
  IN  [j \in 1..cnt |-> KmerAt(s, (j - 1) * step, k)]

CeilDiv(n, k) == (n + k - 1) \div k

\* Greedy non-overlapping: offsets 0, k, 2k, ... and a last one at n - k.
GreedyOffset(n, k, j) == IF j < CeilDiv(n, k) THEN (j - 1) * k ELSE n - k

GreedyKmersOf(s, k) ==
  LET n == Len(s)
      cnt == IF n < k THEN 0 ELSE CeilDiv(n, k)
  IN  [j \in 1..cnt |-> KmerAt(s, GreedyOffset(n, k, j), k)]

\* The seeds the strategy `tag` is specified to give for one string.
SpecSeedsOf(tag, s, k, step) ==
  IF tag = "greedy" THEN GreedyKmersOf(s, k) ELSE KmersOf(s, k, step)

\* Their concatenation over the first m strings of the string set.
RECURSIVE SpecSeeds(_, _, _, _, _)
SpecSeeds(tag, string_set, k, step, m) ==
  IF m = 0 THEN <<>>
  ELSE SpecSeeds(tag, string_set, k, step, m - 1)
         \o SpecSeedsOf(tag, string_set[m], k, step)

\* What the call added to the vector: the step form appends, the tag forms
\* clear the vector first.
Produced ==
  IF call.tag = "step"
  THEN SubSeq(patterns, Len(call.before) + 1, Len(patterns))
  ELSE patterns

AllAtLeastK == \A i \in 1..Len(sequences) : Len(sequences[i]) >= seed_len

\* C1: for every strategy and every k >= 1 a sequence shorter than k
\* contributes no seed, the call neither wraps its loop bound nor fails, and
\* every seed emitted has length k.
C1_ShortSequencesYieldNoSeeds ==
  (pc # "api" /\ call.tag # "none") =>
     /\ outcome = "ok"
     /\ \A j \in 1..Len(Produced) : Len(Produced[j]) = seed_len
     /\ Produced = SpecSeeds(call.tag, sequences, seed_len, call.step,
                             Len(sequences))

\* C5: greedy non-overlapping seeding of sequences of length n >= k gives,
\* for each, ceil(n/k) seeds of length k at offsets 0, k, 2k, ... and last at
\* n - k (ending at n); the last overlaps its predecessor by k - (n mod k)
\* characters when k does not divide n, and by none when it does.
C5_GreedyNonOverlapping ==
  (call.tag = "greedy" /\ AllAtLeastK) =>
     /\ outcome = "ok"
     /\ patterns = SpecSeeds("greedy", sequences, seed_len, seed_len,
                             Len(sequences))
     /\ \A j \in 1..Len(patterns) : Len(patterns[j]) = seed_len
     /\ Len(sequences) = 1 =>
          LET n == Len(sequences[1])
              k == seed_len
              cnt == Len(patterns)
          IN  /\ cnt = CeilDiv(n, k)
              /\ patterns[cnt] = KmerAt(sequences[1], n - k, k)
              /\ \A j \in 1..(cnt - 1) :
                   patterns[j] = KmerAt(sequences[1], (j - 1) * k, k)
              /\ (cnt >= 2 /\ n % k # 0) =>
                   ((cnt - 2) * k + k) - (n - k) = k - (n % k)
              /\ (cnt >= 2 /\ n % k = 0) => (cnt - 2) * k + k = n - k

\* "ACGTACGTAC", k = 4: ACGT, ACGT, GTAC.
C5_Witness ==
  /\ call.tag = "greedy"
  /\ outcome = "ok"
  /\ seed_len = 4
  /\ sequences = <<<<1, 2, 3, 4, 1, 2, 3, 4, 1, 2>>>>
  /\ patterns = <<<<1, 2, 3, 4>>, <<1, 2, 3, 4>>, <<3, 4, 1, 2>>>>

\* C6: strict non-overlapping seeding (step = k) of sequences of length
\* n >= k gives, for each, floor(n/k) seeds of length k at the disjoint
\* offsets 0, k, 2k, ...; the last n mod k characters are in no seed.
C6_StrictNonOverlapping ==
  ((call.tag = "nonoverlapping" \/ (call.tag = "step" /\ call.step = seed_len))
    /\ AllAtLeastK) =>
     /\ outcome = "ok"
     /\ Produced = SpecSeeds("nonoverlapping", sequences, seed_len, seed_len,
                             Len(sequences))
     /\ \A j \in 1..Len(Produced) : Len(Produced[j]) = seed_len
     /\ call.tag = "nonoverlapping" => patterns = Produced
     /\ Len(sequences) = 1 =>
          LET n == Len(sequences[1])
              k == seed_len
          IN  /\ Len(Produced) = n \div k
              /\ \A j \in 1..Len(Produced) :
                   Produced[j] = KmerAt(sequences[1], (j - 1) * k, k)
              /\ Len(Produced) * k = n - (n % k)

\* "ACGTACGTAC", k = 4: ACGT, ACGT; "AC" is dropped.
C6_Witness ==
  /\ call.tag = "nonoverlapping"
  /\ outcome = "ok"
  /\ seed_len = 4
  /\ sequences = <<<<1, 2, 3, 4, 1, 2, 3, 4, 1, 2>>>>
  /\ patterns = <<<<1, 2, 3, 4>>, <<1, 2, 3, 4>>>>

\* C7: overlapping seeding (step = 1) of sequences of length n >= k gives,
\* for each, n - k + 1 seeds, the i-th being the substring of length k at
\* offset i.
C7_Overlapping ==
  ((call.tag = "overlapping" \/ (call.tag = "step" /\ call.step = 1))
    /\ AllAtLeastK) =>
     /\ outcome = "ok"
     /\ Produced = SpecSeeds("overlapping", sequences, seed_len, 1,
                             Len(sequences))
     /\ call.tag = "overlapping" => patterns = Produced
     /\ Len(sequences) = 1 =>
          LET n == Len(sequences[1])
              k == seed_len
          IN  /\ Len(Produced) = n - k + 1
              /\ \A i \in 0..(n - k) :
                   Produced[i + 1] = KmerAt(sequences[1], i, k)

\* "ACGTACGTAC", k = 4: ACGT, CGTA, GTAC, TACG, ACGT, CGTA, GTAC.
C7_Witness ==
  /\ call.tag = "overlapping"
  /\ call.before = <<StaleSeed>>
  /\ outcome = "ok"
  /\ seed_len = 4
  /\ sequences = <<<<1, 2, 3, 4, 1, 2, 3, 4, 1, 2>>>>
  /\ patterns = <<<<1, 2, 3, 4>>, <<2, 3, 4, 1>>, <<3, 4, 1, 2>>,
                  <<4, 1, 2, 3>>, <<1, 2, 3, 4>>, <<2, 3, 4, 1>>,
                  <<3, 4, 1, 2>>>>

\* C8: for any step >= 1 the seeds produced from a list of sequences are the
\* concatenation, in input order, of each sequence's length-k substrings at
\* offsets 0, step, 2*step, ... <= length - k, in increasing offset order.
C8_StepFormConcatenation ==
  call.tag = "step" =>
     /\ outcome = "ok"
     /\ Produced = SpecSeeds("step", sequences, seed_len, call.step,
                             Len(sequences))

-----------------------------------------------------------------------------
(***************************************************************************)
(* Properties of the run of main().                                        *)
(***************************************************************************)

\* C2: a progress report fired at any instant after the handler is
\* installed, also while total_no is still 0, is guarded: the percentage is
\* never evaluated with total_no = 0 and the report does not end the run.
C2_ReportGuardsZeroTotal ==
  /\ pc # "sigfpe"
  /\ report # <<>> => report[1].percent # <<>>

\* C3: at every instant the progress trigger can observe the counters,
\* 0 <= done_idx <= total_no, so every report has 0 <= completed <= total;
\* and the occurrence count any later observation sees is at least the one
\* an earlier report saw.
C3_ProgressSnapshot ==
  /\ 0 <= done_idx
  /\ done_idx <= total_no
  /\ report # <<>> =>
       /\ 0 <= report[1].completed
       /\ report[1].completed <= report[1].total
       /\ report[1].occurrences <= total_occs

C3_Witness ==
  /\ report # <<>>
  /\ report[1].completed = 1
  /\ report[1].total = 2
  /\ report[1].occurrences = 2
  /\ total_occs = 3
  /\ done_idx = 2

\* The occurrences locate resolves for the first m retained ranges, in the
\* order resolved.
RECURSIVE Resolved(_)
Resolved(m) ==
  IF m = 0 THEN <<>> ELSE Resolved(m - 1) \o locate(index, ranges[m])

\* C4: at Done every occurrence locate resolved in the locating phase has
\* been written to the output as one record (node, offset), in the order
\* resolved.
C4_OutputAtDone ==
  pc = "done" => output = Resolved(Len(ranges))

\* The seeds that match, and the occurrences of the first m seeds.
Matching == {i \in 1..Len(patterns) : find(index, patterns[i]) # EmptyRange}

RECURSIVE OccurrencesOf(_)
OccurrencesOf(m) ==
  IF m = 0 THEN 0
  ELSE OccurrencesOf(m - 1) + Cardinality(find(index, patterns[m]))

\* C9: every range handed to locate is non-empty: a seed whose find result
\* is the empty range is never located, adds nothing to total_occs and does
\* not increment done_idx.
C9_NoEmptyRangeLocated ==
  /\ \A i \in 1..Len(ranges) : ~Range_empty(ranges[i])
  /\ pc \in {"locate_begin", "locate", "add_occs", "inc_done", "done"} =>
       /\ Len(ranges) = Cardinality(Matching)
       /\ done_idx <= Len(ranges)
  /\ pc = "done" =>
       /\ done_idx = Cardinality(Matching)
       /\ total_occs = OccurrencesOf(Len(patterns))

C9_Witness ==
  /\ pc = "done"
  /\ Len(patterns) = 2
  /\ find(index, patterns[1]) # EmptyRange
  /\ find(index, patterns[2]) = EmptyRange
  /\ done_idx = 1
  /\ total_occs = 2

\* C10: a progress report is read-only: it leaves done_idx, total_no and
\* total_occs unchanged and does not change the step the main computation
\* executes next.
C10_ReportReadOnly ==
  [][signal_handler => (pc' = pc /\ UNCHANGED counters)]_vars

\* A run that failed to open one of its two input files: it has failed and
\* seeding was never called.
OpenFailed == pc = "failed" /\ outcome = "none"

\* No Timer has been constructed: no entry of the registry has a start.
NoTimerStarted == \A name \in DOMAIN timers : timers[name].start = 0

\* C11: when the sequence file or the index file cannot be opened the run
\* has failed and nothing follows: the index is not loaded, no sequence is
\* read, no seed generated, find and locate are not called, no timer is
\* started, the three counters are 0 and nothing is written to the output.
C11_OpenFailureIsClean ==
  OpenFailed =>
    /\ index = <<>>
    /\ sequences = <<>> /\ patterns = <<>>
    /\ ranges = <<>> /\ results = <<>> /\ total = 0
    /\ NoTimerStarted
    /\ counters = <<0, 0, 0>>
    /\ output = <<>>
    /\ ~ENABLED Next

\* The index file cannot be opened, after the sequence file was, and a
\* progress report was printed before.
C11_Witness ==
  /\ OpenFailed
  /\ seq_file # <<>>
  /\ report # <<>>

\* The options were parsed and -d was not given.
DistanceUnspecified == pc \notin {"main", "exit_parse"} /\ distance_opt = 0

\* The claim as the specification words it: with the distance unspecified
\* the seeds are generated overlapping, with step 1.
C12_DefaultIsOverlapping ==
  DistanceUnspecified =>
    /\ distance = 1
    /\ outcome = "ok" =>
         patterns = SpecSeeds("step", sequences, seed_len, 1, Len(sequences))

\* C12 (amended): with the distance unspecified the seeds are generated with
\* step = seed length, the strict non-overlapping seeds at offsets 0, k,
\* 2k, ...; they are the overlapping ones only when the seed length is 1.
C12_DefaultStepIsSeedLength ==
  DistanceUnspecified =>
    /\ distance = seed_len
    /\ outcome = "ok" =>
         patterns = SpecSeeds("step", sequences, seed_len, seed_len,
                              Len(sequences))

\* Seeds of length 2 were generated from the line "ACG" with no -d on the
\* command line: the one seed AC, where step 1 gives AC and CG.
C12_Witness ==
  /\ DistanceUnspecified
  /\ outcome = "ok"
  /\ seed_len = 2
  /\ distance = 2
  /\ sequences = <<Ruler(3)>>
  /\ patterns = <<KmerAt(Ruler(3), 0, 2)>>
  /\ SpecSeeds("step", sequences, 2, 1, 1)
       = <<KmerAt(Ruler(3), 0, 2), KmerAt(Ruler(3), 1, 2)>>

\* An entry of the registry reads as running: its end is not after its start.
Running(entry) == ~(entry.end > entry.start)

\* The last call was get_lap for a name that has been started.
LapOfStarted == call.tag = "get_lap" /\ call.entry.start > 0

\* C13: for a timer that has been started get_lap returns end - start when
\* the end is strictly after the start and now - start otherwise; it needs
\* no stop to have been recorded, and two successive get_lap of a timer
\* that is running, with no restart in between, do not decrease.
C13_Lap ==
  /\ [](LapOfStarted =>
          /\ call.value = IF call.entry.end > call.entry.start
                          THEN call.entry.end - call.entry.start
                          ELSE call.at - call.entry.start
          /\ call.value >= 0)
  /\ [][\A name \in TimerNames :
          (/\ QueryLap(name)
           /\ LapOfStarted /\ call.name = name
           /\ Running(call.entry) /\ Running(call'.entry)
           /\ call'.entry.start = call.entry.start)
          => call'.value >= call.value]_vars

\* get_lap of a timer stopped at the instant it was started, asked later:
\* the entry reads as running and the lap is now - start, not 0.
C13_Witness ==
  /\ LapOfStarted
  /\ call.entry.end = call.entry.start
  /\ call.value = 1

\* The last call asked for a name the registry did not hold.
QueryOfUnknown == call.tag \in {"get_duration", "get_lap"} /\ ~call.had

\* The claim as the specification words it: the duration or the lap of a
\* name never started inserts the default entry and reports now - epoch.
C20_UnknownReportsNow ==
  QueryOfUnknown =>
    /\ call.name \in DOMAIN timers
    /\ call.entry = TimePeriod
    /\ call.value = now - 0

\* C20 (amended): the registry only grows and a query is not read-only:
\* get_lap or get_duration of a name never started inserts the default
\* entry (start = end = epoch); get_lap then reports now - epoch and
\* get_duration reports 0.  No entry is ever removed.  Constructing a Timer
\* for a name the registry holds overwrites only the start, which is not
\* before the end, and until the next stop of the name the entry is left
\* alone and reads as running (end <= start).
C20_RegistryGrows ==
  /\ [](QueryOfUnknown =>
          /\ call.name \in DOMAIN timers
          /\ call.entry = TimePeriod
          /\ call.value = IF call.tag = "get_lap" THEN call.at - 0 ELSE 0)
  /\ [][/\ DOMAIN timers \subseteq DOMAIN timers'
        /\ \A name \in DOMAIN timers :
             /\ Start(name) =>
                  /\ timers'[name].end = timers[name].end
                  /\ timers'[name].start = now'
                  /\ timers'[name].end <= timers'[name].start
             /\ ~(Start(name) \/ \E i \in 1..Len(alive) :
                                   alive[i] = name /\ Stop(i)) =>
                  timers'[name] = timers[name]]_vars

\* A timer stopped after it was started is started again: the entry keeps
\* its end, which the new start has reached, and get_lap reads it as
\* running; and the other name was only ever queried.
C20_Witness ==
  /\ call.tag = "get_lap" /\ call.had
  /\ call.entry.end > 1 /\ call.entry.start >= call.entry.end
  /\ \E i \in 1..Len(alive) : alive[i] = call.name
  /\ \E other \in DOMAIN timers : timers[other] = TimePeriod

\* The phases of locate_seeds that construct a Timer, and the steps at which
\* the run is inside each.
Phases == {"sequences", "patterns", "find", "locate"}

Inside(name) ==
  CASE name = "sequences" -> {"reading"}
    [] name = "patterns"  -> {"seeding"}
    [] name = "find"      -> {"find"}
    [] name = "locate"    -> {"locate", "add_occs", "inc_done"}

\* The phase was entered (its Timer constructed) and has been left, by
\* reaching its end or by an exception thrown inside it.
PhaseLeft(name) ==
  /\ name \in DOMAIN timers
  /\ timers[name].start > 0
  /\ pc \notin Inside(name) \cup {"sigfpe", "hung"}

\* C14: the stop of a phase's timer is recorded on every exit path of the
\* phase, the exit by a failure inside it included: whenever a phase has
\* been left, the end of its timer is not before its start.
C14_StopOnEveryExit ==
  \A name \in Phases :
    PhaseLeft(name) => timers[name].end >= timers[name].start

\* The stages of a run, in the order of main and locate_seeds; the steps of
\* one loop are one stage.
Stage(p) ==
  CASE p = "main"         -> 0
    [] p = "install"      -> 1
    [] p = "open_seq"     -> 2
    [] p = "open_gcsa"    -> 3
    [] p = "load_index"   -> 4
    [] p = "load_seqs"    -> 5
    [] p = "reading"      -> 6
    [] p = "gen_patterns" -> 7
    [] p = "seeding"      -> 8
    [] p = "set_total"    -> 9
    [] p = "find_begin"   -> 10
    [] p = "find"         -> 11
    [] p = "locate_begin" -> 12
    [] p \in {"locate", "add_occs", "inc_done"} -> 13
    [] p = "done"         -> 14

\* A run that reached "done" with a range located, the clock having
\* advanced between the first two phases.
C15_Witness ==
  /\ pc = "done"
  /\ timers["sequences"].start < timers["patterns"].start
  /\ timers["find"].end = timers["locate"].start
  /\ Len(ranges) >= 1

\* The run was ended before its last stage.
Fatal == {"exit_parse", "failed", "sigfpe", "hung"}

\* The entry of a name, the default one when the registry has none.
EntryOf(registry, name) ==
  IF name \in DOMAIN registry THEN registry[name] ELSE TimePeriod

Started(name) == EntryOf(timers, name).start > 0
Stopped(name) ==
  Started(name) /\ EntryOf(timers, name).end >= EntryOf(timers, name).start

\* The step before the phase of a name.
Before(name) ==
  CASE name = "sequences" -> "load_seqs"
    [] name = "patterns"  -> "gen_patterns"
    [] name = "find"      -> "find_begin"
    [] name = "locate"    -> "locate_begin"

\* The timers in the order of their phases.
PhaseOrder == <<"sequences", "patterns", "find", "locate">>

\* C15: the stages of a run execute in the order index load, sequence
\* load, seed generation, find loop, locate loop, done: a step stays in its
\* stage, moves to the next one or ends the run, and an ended run takes no
\* step.  Each of the four timers is started only by the step that enters
\* its phase and stopped only by a step that leaves it, hence at most once
\* each and, in a run that is not ended early, exactly once: the timer is
\* started from the first step of its phase on and stopped from the first
\* step after it on.  A timer is started only when its predecessor has been
\* stopped, and not before that stop.
C15_StageOrder ==
  /\ [](/\ \A j \in 2..4 :
             Started(PhaseOrder[j]) =>
               /\ Stopped(PhaseOrder[j - 1])
               /\ timers[PhaseOrder[j - 1]].end <= timers[PhaseOrder[j]].start
        /\ pc \notin Fatal =>
             \A name \in Phases :
               /\ Started(name) <=> Stage(pc) > Stage(Before(name))
               /\ Stopped(name) <=> Stage(pc) > Stage(Before(name)) + 1)
  /\ [][/\ ~Ended
        /\ pc' \notin Fatal =>
             Stage(pc') \in {Stage(pc), Stage(pc) + 1}
        /\ \A name \in Phases :
             /\ EntryOf(timers', name).start # EntryOf(timers, name).start =>
                  pc = Before(name) /\ pc' \in Inside(name)
             /\ EntryOf(timers', name).end # EntryOf(timers, name).end =>
                  pc \in Inside(name) /\ pc' \notin Inside(name)]_vars

\* The non-empty find results of the first m seeds, in seed order, and the
\* sum of their counts.
RECURSIVE Retained(_)
Retained(m) ==
  IF m = 0 THEN <<>>
  ELSE IF find(index, patterns[m]) = EmptyRange
       THEN Retained(m - 1)
       ELSE Append(Retained(m - 1), find(index, patterns[m]))

RECURSIVE SumOfCounts(_)
SumOfCounts(rs) ==
  IF rs = <<>> THEN 0
  ELSE count(index, Head(rs)) + SumOfCounts(Tail(rs))

\* C16: the find phase calls find once per generated seed, in seed order;
\* an empty result does not end the loop; the ranges retained are exactly
\* the non-empty results, in seed order; and when the loop ends the total
\* of matching paths is the sum of count over the retained ranges.
C16_FindPhase ==
  /\ [](/\ pc = "find" =>
             /\ it \in 1..(Len(patterns) + 1)
             /\ ranges = Retained(it - 1)
             /\ total = SumOfCounts(ranges)
        /\ pc \in {"locate_begin", "locate", "add_occs", "inc_done", "done"} =>
             ranges = Retained(Len(patterns)))
  /\ [][pc = "find" =>
          \/ pc' = "find" /\ it' \in {it, it + 1}
          \/ pc' = "locate_begin" /\ it = Len(patterns) + 1
          \/ pc' = "sigfpe"]_vars

\* The find loop has ended: of the three seeds A, C, G the last matched
\* nothing in "AAC", and the two ranges retained hold two paths and one.
C16_Witness ==
  /\ pc = "find"
  /\ Len(patterns) = 3
  /\ it = 4
  /\ find(index, patterns[3]) = EmptyRange
  /\ Len(ranges) = 2
  /\ total = 3

\* C17: total_no is 0 until the seeds have been generated, is then set, by
\* one assignment, to the number of seeds, and keeps that value through the
\* find and the locate phase up to "done".
C17_TotalNo ==
  /\ [](/\ (pc \notin Fatal /\ Stage(pc) <= Stage("set_total")) =>
             total_no = 0
        /\ (pc \notin Fatal /\ Stage(pc) > Stage("set_total")) =>
             total_no = Len(patterns)
        /\ pc \in Fatal => total_no \in {0, Len(patterns)})
  /\ [][total_no' # total_no =>
          pc = "set_total" /\ total_no = 0 /\ pc' = "find_begin"]_vars

\* "done" with three seeds counted, of which two matched.
C17_Witness ==
  /\ pc = "done"
  /\ total_no = 3
  /\ Len(patterns) = 3
  /\ Len(ranges) = 2

\* The occurrences locate gives for the first m retained ranges.
RECURSIVE LocatedOccs(_)
LocatedOccs(m) ==
  IF m = 0 THEN 0
  ELSE LocatedOccs(m - 1) + Len(locate(index, ranges[m]))

\* C18: in the locate loop total_occs is updated before done_idx, so at
\* every instant total_occs is at least the occurrences of the first
\* done_idx ranges and at most one range ahead of them (ahead exactly
\* between the two updates); at "done" done_idx is the number of retained
\* ranges, which is total_no only if every seed matched, and total_occs is
\* the occurrences of all retained ranges.
C18_OccsBeforeDone ==
  /\ done_idx <= Len(ranges)
  /\ total_occs = LocatedOccs(done_idx)
                    + (IF pc = "inc_done" THEN Len(results) ELSE 0)
  /\ pc = "inc_done" =>
       /\ done_idx < Len(ranges)
       /\ total_occs = LocatedOccs(done_idx + 1)
  /\ pc = "done" =>
       /\ done_idx = Len(ranges)
       /\ Len(ranges) = Cardinality(Matching)
       /\ total_occs = LocatedOccs(Len(ranges))
       /\ done_idx = total_no <=> Cardinality(Matching) = Len(patterns)

\* Between the two updates of the second range: total_occs is one range
\* ahead of done_idx, and one of the three seeds did not match.
C18_Witness ==
  /\ pc = "inc_done"
  /\ done_idx = 1
  /\ total_occs = 3
  /\ LocatedOccs(1) = 2
  /\ total_no = 3
  /\ Len(ranges) = 2

\* The options were accepted.
Accepted == pc \notin {"main", "exit_parse"}

\* C19: for every seed length k >= 1 and every distance accepted, 0 being
\* replaced by k, the step passed to seeding is at least 1; the loops of
\* seeding end (by returning or by throwing); and every run ends: its
\* options are rejected, or it reaches "done", or it fails fatally
\* ("failed", or killed in a progress report).
C19_Terminates ==
  /\ [](Accepted =>
          /\ seed_len >= 1
          /\ distance = (IF distance_opt = 0 THEN seed_len ELSE distance_opt)
          /\ distance >= 1
          /\ outcome \in {"none", "ok", "out_of_range"}
          /\ pc # "hung")
  /\ <>(pc = "exit_parse" \/ pc \in {"done", "failed", "sigfpe"})

\* "done" was reached with no -d given and seeds of length 2 generated.
C19_Witness ==
  /\ pc = "done"
  /\ distance_opt = 0
  /\ distance = 2
  /\ Len(patterns) >= 1
  /\ report # <<>>

=============================================================================
